---------------------------- MODULE Spec2Model ----------------------------
(***************************************************************************)
(* Verification model of mod-release-workflow.                             *)
(*                                                                         *)
(*   Part I  (Spec, FairSpec): scripts/sync_mod.py, the Sync Reconciler:   *)
(*           main -> sync_mod -> bounded retry loop over the version       *)
(*           query, the packwiz invocation and the git probe.              *)
(*   Part II (EditSpec): the [mc-publish] fragment locator and editor of   *)
(*           setup.py and scripts/mods_toml.py, on texts that are          *)
(*           sequences of code units, with the decoding and validation of  *)
(*           the file a rewrite leaves.                                    *)
(*   Part III (FormatSpec, ValidateSpec): format_toml_value of setup.py    *)
(*           and main of scripts/mods_toml.py on a decoded table.          *)
(***************************************************************************)
EXTENDS Integers, Sequences, FiniteSets, TLC

VARIABLES
    \* ---- Part I: one process run of sync_mod.py
    pc,           \* position of the process: "main", "start", "gate", "invoke",
                  \* "probe", "return", "exited"
    argc,         \* len(sys.argv)
    pack_dir_ok,  \* pack_dir.exists()
    platform,     \* sys.argv[3]: "mr" or "cf"
    descriptors,  \* the pack's mods directory: whether it exists, and the
                  \* slugs that its *.pw.toml files name
    action,       \* sync_mod's local `action`
    attempt,      \* the loop variable of sync_mod
    success,      \* the `success` local of the current attempt
    cur,          \* what happened in the attempt numbered cur.n
    outcome,      \* outcome of the last finished attempt (a SyncAttempt)
    result,       \* return value of sync_mod: "running", "success", "failure"
    exit_code,    \* process exit status, -1 while running
    sink,         \* lines appended to GITHUB_OUTPUT
    cmds,         \* the packwiz command lines used so far
    nChecks,      \* calls of mod_exists_in_pack
    nTool,        \* calls of run_packwiz
    nDone,        \* finished attempts
    \* ---- Part II: the mods.toml file and the editor's calls
    file,         \* content of mods.toml, a sequence of code units
    values,       \* the value mapping handed to update_mc_publish_block
    ordered_keys, \* the key order handed to update_mc_publish_block
    prev,         \* the text the last rewrite read
    ret,          \* the last rewrite's return value: "none", "True", "False"
    nRewrites,    \* rewrites applied so far
    located,      \* result of the last extract_mc_publish_block call
    \* ---- Part III: validation (scripts/mods_toml.py) and value formatting
    metadata,     \* the decoded document: tomllib's result, with the
                  \* mapping of its "mc-publish" table
    validated,    \* what read_metadata did: the record returned, or the
                  \* diagnostic it failed with
    args,         \* mods_toml.py's --write-outputs flag, and whether
                  \* GITHUB_OUTPUT is set
    fmt           \* one call of format_toml_value: name, value and result

syncVars == <<pc, argc, pack_dir_ok, platform, descriptors, action, attempt,
              success, cur, outcome, result, exit_code, sink, cmds, nChecks,
              nTool, nDone>>
editVars == <<file, values, ordered_keys, prev, ret, nRewrites, located>>
metaVars == <<metadata, validated, args, fmt>>
vars == <<syncVars, editVars, metaVars>>

-----------------------------------------------------------------------------
(***************************************************************************)
(* Part I.  scripts/sync_mod.py                                            *)
(***************************************************************************)

MAX_RETRIES == 20

\* The artifact being synced (sys.argv[2]) and another artifact of the pack.
mod_slug == "mymod"
OtherSlug == "othermod"

NoDir == [dir |-> FALSE, slugs |-> {}]
DescriptorStates ==
    {NoDir} \cup {[dir |-> TRUE, slugs |-> s] : s \in SUBSET {mod_slug, OtherSlug}}

Platforms == {"mr", "cf"}

\* mod_exists_in_pack: False without a mods directory, else whether some
\* descriptor file contains slug = "<mod_slug>".
mod_exists_in_pack(slug, dir) ==
    IF ~dir.dir THEN FALSE ELSE slug \in dir.slugs

\* What the HTTP query can do: 200 with a matching version record, 200
\* without one, another status code, or an exception inside the try block
\* (network error, timeout, malformed body).
QueryOutcomes == {"200_match", "200_nomatch", "non200", "exception"}
QueryFailures == {"non200", "exception"}

check_modrinth_version_always(q) == TRUE

\* check_modrinth_version: True only for a 200 response that lists the
\* version; every other path falls through to `return False`.
check_modrinth_version(q) == q = "200_match"

\* Captured tool output texts, and output.lower().
OutputTexts == {"", "Could not find mod", "no results for slug",
                "permission denied"}
Lower(text) == IF text = "Could not find mod" THEN "could not find mod" ELSE text
Contains(text, phrase) ==
    \/ phrase = "could not find" /\ text = "could not find mod"
    \/ phrase = "no results" /\ text = "no results for slug"

\* What subprocess.run of packwiz can do.
ToolOutcomes ==
    {[kind |-> "exit", rc |-> c, text |-> t] : c \in {0, 1}, t \in OutputTexts}
    \cup {[kind |-> "timeout", rc |-> -1, text |-> ""],
          [kind |-> "raise", rc |-> -1, text |-> "No such file: packwiz"]}

run_packwiz_timeout_ok(raw) ==
    CASE raw.kind = "exit" -> <<raw.rc = 0, raw.text>>
      [] raw.kind = "timeout" -> <<TRUE, "Command timed out">>
      [] OTHER -> <<FALSE, raw.text>>

\* run_packwiz: (success, output); both exceptions are captured as output.
run_packwiz(raw) ==
    CASE raw.kind = "exit" -> <<raw.rc = 0, raw.text>>
      [] raw.kind = "timeout" -> <<FALSE, "Command timed out">>
      [] OTHER -> <<FALSE, raw.text>>

\* The exit status of `git diff --quiet .`: 0 clean, 1 differences, 128 error.
GitExitCodes == {0, 1, 128}
has_git_changes_always(rc) == TRUE
has_git_changes(rc) == rc # 0

packwiz_cmd_redetect(act, plat, slug) ==
    IF mod_exists_in_pack(slug, descriptors)
      THEN <<"update", slug>> ELSE <<plat, "add", slug, "-y">>

\* The command line of one invocation.
packwiz_cmd(act, plat, slug) ==
    IF act = "add" THEN <<plat, "add", slug, "-y">> ELSE <<"update", slug>>

\* The record of one attempt: which calls it made and what each call met
\* (q: the query's outcome, tool: the subprocess's outcome, git: the exit
\* status of git diff).
NoTool == [kind |-> "none", rc |-> -1, text |-> ""]
NoAttempt == [n |-> 0, queried |-> FALSE, q |-> "none", invoked |-> FALSE,
              tool |-> NoTool, probed |-> FALSE, git |-> -1]
NewAttempt(n) == [NoAttempt EXCEPT !.n = n]

NextAttempt_skipping(a) == a + 2

\* `continue` / falling off the loop body: the next value of the loop variable.
NextAttempt(a) == a + 1

SyncInit ==
    /\ pc = "main"
    /\ argc \in {6, 7}
    /\ pack_dir_ok \in BOOLEAN
    /\ platform \in Platforms
    /\ descriptors \in DescriptorStates
    /\ action = "undecided"
    /\ attempt = 0
    /\ success = FALSE
    /\ cur = NoAttempt
    /\ outcome = "none"
    /\ result = "running"
    /\ exit_code = -1
    /\ sink = <<>>
    /\ cmds = {}
    /\ nChecks = 0
    /\ nTool = 0
    /\ nDone = 0

\* main, up to the call of sync_mod: the usage check and the pack_dir check.
main_start ==
    /\ pc = "main"
    /\ IF argc < 7 \/ ~pack_dir_ok
         THEN /\ pc' = "exited"
              /\ exit_code' = 1
         ELSE /\ pc' = "start"
              /\ exit_code' = exit_code
    /\ UNCHANGED <<argc, pack_dir_ok, platform, descriptors, action, attempt,
                   success, cur, outcome, result, sink, cmds, nChecks, nTool,
                   nDone>>
    /\ UNCHANGED <<editVars, metaVars>>

\* sync_mod before the loop: decide the action, write it to GITHUB_OUTPUT.
sync_mod_start ==
    /\ pc = "start"
    /\ LET exists == mod_exists_in_pack(mod_slug, descriptors)
           act == IF exists THEN "update" ELSE "add"
       IN /\ action' = act
          /\ sink' = Append(sink, <<"action", act>>)
    /\ nChecks' = nChecks + 1
    /\ attempt' = 1
    /\ pc' = "gate"
    /\ UNCHANGED <<argc, pack_dir_ok, platform, descriptors, success, cur,
                   outcome, result, exit_code, cmds, nTool, nDone>>
    /\ UNCHANGED <<editVars, metaVars>>

\* Top of one loop iteration: the Modrinth gate.  `and` short-circuits, so
\* the query is made only for platform "mr" on attempts after the first.
sync_mod_gate ==
    /\ pc = "gate"
    /\ attempt <= MAX_RETRIES
    /\ IF platform = "mr" /\ attempt > 1
         THEN \E q \in QueryOutcomes :
                /\ cur' = [NewAttempt(attempt) EXCEPT !.queried = TRUE, !.q = q]
                /\ IF ~check_modrinth_version(q)
                     THEN /\ outcome' = "skipped_not_yet_visible"
                          /\ nDone' = nDone + 1
                          /\ attempt' = NextAttempt(attempt)
                          /\ pc' = "gate"
                     ELSE /\ pc' = "invoke"
                          /\ UNCHANGED <<outcome, nDone, attempt>>
         ELSE /\ cur' = NewAttempt(attempt)
              /\ pc' = "invoke"
              /\ UNCHANGED <<outcome, nDone, attempt>>
    /\ UNCHANGED <<argc, pack_dir_ok, platform, descriptors, action, success,
                   result, exit_code, sink, cmds, nChecks, nTool>>
    /\ UNCHANGED <<editVars, metaVars>>

\* The packwiz invocation of one iteration and the branch on its failure.
sync_mod_invoke ==
    /\ pc = "invoke"
    /\ \E raw \in ToolOutcomes :
         LET cmd == packwiz_cmd(action, platform, mod_slug)
             r == run_packwiz(raw)
         IN /\ cmds' = cmds \cup {cmd}
            /\ nTool' = nTool + 1
            /\ success' = r[1]
            /\ cur' = [cur EXCEPT !.invoked = TRUE, !.tool = raw]
            /\ IF ~r[1]
                 THEN /\ outcome' =
                           IF \/ Contains(Lower(r[2]), "could not find")
                              \/ Contains(Lower(r[2]), "no results")
                             THEN "tool_error_not_found"
                             ELSE "tool_error_other"
                      /\ nDone' = nDone + 1
                      /\ attempt' = NextAttempt(attempt)
                      /\ pc' = "gate"
                 ELSE /\ pc' = "probe"
                      /\ UNCHANGED <<outcome, nDone, attempt>>
    /\ UNCHANGED <<argc, pack_dir_ok, platform, descriptors, action, result,
                   exit_code, sink, nChecks>>
    /\ UNCHANGED <<editVars, metaVars>>

\* The working-tree probe after a successful invocation.
sync_mod_probe ==
    /\ pc = "probe"
    /\ \E rc \in GitExitCodes :
         LET changes == has_git_changes(rc)
         IN /\ cur' = [cur EXCEPT !.probed = TRUE, !.git = rc]
            /\ nDone' = nDone + 1
            /\ IF changes
                 THEN /\ outcome' = "converged"
                      /\ result' = "success"
                      /\ pc' = "return"
                      /\ attempt' = attempt
                 ELSE /\ outcome' = "no_change_detected"
                      /\ result' = result
                      /\ attempt' = NextAttempt(attempt)
                      /\ pc' = "gate"
    /\ UNCHANGED <<argc, pack_dir_ok, platform, descriptors, action, success,
                   exit_code, sink, cmds, nChecks, nTool>>
    /\ UNCHANGED <<editVars, metaVars>>

\* The loop is exhausted: log the timeout and return False.
sync_mod_timed_out ==
    /\ pc = "gate"
    /\ attempt > MAX_RETRIES
    /\ result' = "failure"
    /\ pc' = "return"
    /\ UNCHANGED <<argc, pack_dir_ok, platform, descriptors, action, attempt,
                   success, cur, outcome, exit_code, sink, cmds, nChecks, nTool,
                   nDone>>
    /\ UNCHANGED <<editVars, metaVars>>

\* main after sync_mod returned.
main_return ==
    /\ pc = "return"
    /\ exit_code' = IF result = "success" THEN 0 ELSE 1
    /\ pc' = "exited"
    /\ UNCHANGED <<argc, pack_dir_ok, platform, descriptors, action, attempt,
                   success, cur, outcome, result, sink, cmds, nChecks, nTool,
                   nDone>>
    /\ UNCHANGED <<editVars, metaVars>>

\* Another process adds or removes descriptor files while the run is going on.
descriptors_change ==
    /\ pc \in {"start", "gate", "invoke", "probe"}
    /\ \E d \in DescriptorStates \ {descriptors} : descriptors' = d
    /\ UNCHANGED <<pc, argc, pack_dir_ok, platform, action, attempt, success,
                   cur, outcome, result, exit_code, sink, cmds, nChecks, nTool,
                   nDone>>
    /\ UNCHANGED <<editVars, metaVars>>

\* While the sync process is modelled nothing touches mods.toml.
EditIdle ==
    /\ file = <<>>
    /\ values = <<>>
    /\ ordered_keys = <<>>
    /\ prev = <<>>
    /\ ret = "none"
    /\ nRewrites = 0
    /\ located = "none"

\* No metadata has been decoded or validated, no value formatted.
NoMetadata == [kind |-> "none", has |-> FALSE, table |-> [k \in {} |-> <<>>]]
NotValidated == [kind |-> "none", named |-> <<>>, values |-> [k \in {} |-> <<>>]]
NoArgs == [write_outputs |-> FALSE, GITHUB_OUTPUT |-> FALSE]
NotFormatted == [name |-> "none", value |-> <<>>, out |-> <<>>, done |-> FALSE]

MetaIdle ==
    /\ metadata = NoMetadata
    /\ validated = NotValidated
    /\ args = NoArgs
    /\ fmt = NotFormatted

Init == SyncInit /\ EditIdle /\ MetaIdle

SyncStep ==
    \/ main_start
    \/ sync_mod_start
    \/ sync_mod_gate
    \/ sync_mod_invoke
    \/ sync_mod_probe
    \/ sync_mod_timed_out
    \/ main_return

Next ==
    \/ main_start
    \/ sync_mod_start
    \/ sync_mod_gate
    \/ sync_mod_invoke
    \/ sync_mod_probe
    \/ sync_mod_timed_out
    \/ main_return
    \/ descriptors_change

Spec == Init /\ [][Next]_vars

\* The process is sequential and every call returns (each carries a timeout
\* or is a local computation), so the process's own steps are weakly fair;
\* nothing is assumed of the other process.
FairSpec == Init /\ [][Next]_vars /\ WF_vars(SyncStep)

-----------------------------------------------------------------------------
(***************************************************************************)
(* Claims about the Sync Reconciler.                                       *)
(***************************************************************************)

ToolSucceeded(a) == a.invoked /\ a.tool.kind = "exit" /\ a.tool.rc = 0
ToolFailed(a) == a.invoked /\ ~(a.tool.kind = "exit" /\ a.tool.rc = 0)

\* C1 (state part): sync_mod has returned success only if, in the attempt it
\* returned from, packwiz was invoked and exited 0 and the git probe made
\* after it exited non-zero (reported changes).
C1_SuccessIsObserved ==
    result = "success" =>
        /\ cur.n = attempt
        /\ ToolSucceeded(cur)
        /\ cur.probed
        /\ cur.git # 0

\* C1 (step part): a probe that reports no change after a successful tool
\* exit does not end the run: the run stays running and goes to the top of
\* the next iteration.
C1_NoChangeRetries ==
    (pc = "probe" /\ cur'.probed /\ cur'.git = 0) =>
        /\ ToolSucceeded(cur')
        /\ result' = "running"
        /\ pc' = "gate"
        /\ attempt' = attempt + 1

\* C1: no false convergence: success is returned only from an attempt whose
\* tool invocation succeeded and whose probe reported changes, and a
\* successful exit with no change detected is followed by a retry.
C1_NoFalseConvergence ==
    [](C1_SuccessIsObserved) /\ [][C1_NoChangeRetries]_vars

\* A run that converged on a later attempt, every attempt having invoked
\* the tool.
C1_Witness ==
    /\ result = "success"
    /\ cur.n > 1
    /\ nTool = cur.n
    /\ platform = "cf"
    /\ cur.git = 1

C2_Budget ==
    /\ nDone <= MAX_RETRIES
    /\ nTool <= MAX_RETRIES
    /\ nTool <= nDone + 1
    /\ attempt <= MAX_RETRIES + 1
    /\ (result = "failure" => nDone = MAX_RETRIES /\ attempt = MAX_RETRIES + 1)
    /\ (pc = "exited" /\ nChecks > 0 /\ result # "success" =>
            result = "failure" /\ exit_code = 1)

\* C2: bounded termination: every run ends; a run that did not converge ends
\* in TimedOut (failure, exit status 1) after exactly MAX_RETRIES attempts;
\* no run makes more than MAX_RETRIES attempts or tool invocations.
C2_BoundedTermination == [](C2_Budget) /\ <>(pc = "exited")

\* The tool always succeeded and the probe never reported a change.
C2_Witness ==
    /\ pc = "exited"
    /\ result = "failure"
    /\ exit_code = 1
    /\ nTool = MAX_RETRIES
    /\ nDone = MAX_RETRIES
    /\ outcome = "no_change_detected"

\* C3: the visibility gate: for platform "mr" every attempt after the first
\* makes the query, and when it answers "not visible" the tool is not invoked
\* in that attempt, which ends there; the first attempt and every attempt of
\* another platform make no query and go on to invoke the tool.
C3_VisibilityGate ==
    /\ (cur.queried => platform = "mr" /\ cur.n > 1)
    /\ (cur.n > 1 /\ platform = "mr" => cur.queried)
    /\ (cur.q = "200_nomatch" =>
            /\ ~cur.invoked
            /\ attempt = cur.n + 1
            /\ pc \in {"gate", "return", "exited"})
    /\ (cur.n >= 1 /\ ~cur.queried => cur.invoked \/ pc = "invoke")

\* A later attempt was skipped because the version was not visible, after
\* the tool had been invoked in earlier attempts.
C3_Witness ==
    /\ cur.q = "200_nomatch"
    /\ cur.n = 3
    /\ nTool = 2
    /\ nDone = 3

\* C4: a failed version query does not block the invocation: in an attempt
\* whose query failed the tool is invoked (or is about to be).
C4_FailedQueryStillInvokes ==
    cur.q \in QueryFailures => cur.invoked \/ pc = "invoke"

C5_FailureRetries ==
    LET toolFailed == pc = "invoke" /\ ToolFailed(cur')
        queryFailed == /\ pc = "gate"
                       /\ cur'.n = attempt
                       /\ cur'.q \in QueryFailures
    IN (toolFailed \/ queryFailed) =>
          /\ result' = "running"
          /\ exit_code' = -1
          /\ pc' = "gate"
          /\ attempt' = attempt + 1
          /\ nDone' = nDone + 1

C5_OnlyBudgetFails ==
    /\ (result = "failure" => attempt > MAX_RETRIES /\ nDone = MAX_RETRIES)
    /\ (nChecks > 0 /\ exit_code = 1 => result = "failure")
    /\ (pc = "gate" /\ attempt <= MAX_RETRIES => result = "running")

\* C5: no tool failure and no query error ends the run: after one, the run is
\* still running at the top of the next iteration, and sync_mod reports
\* failure only when the attempt budget is spent.
C5_NoErrorIsFatal == [](C5_OnlyBudgetFails) /\ [][C5_FailureRetries]_vars

\* The third attempt invokes the tool after the tool failed in the second.
C5_Witness ==
    /\ pc = "invoke"
    /\ cur.n = 3
    /\ outcome = "tool_error_not_found"
    /\ nTool = 2
    /\ result = "running"

C6_Decision ==
    (pc = "start" /\ pc' # "start") =>
        /\ action' = IF descriptors.dir /\ mod_slug \in descriptors.slugs
                       THEN "update" ELSE "add"
        /\ sink' = <<<<"action", action'>>>>
        /\ nTool = 0

C6_Fixed ==
    /\ (action # "undecided" => action' = action)
    /\ (sink # <<>> => sink' = sink)
    /\ nChecks' <= 1

C6_OneVerb ==
    /\ (attempt >= 1 => nChecks = 1 /\ sink = <<<<"action", action>>>>)
    /\ (attempt = 0 => sink = <<>> /\ cmds = {})
    /\ \A c \in cmds :
         /\ action = "add" => c = <<platform, "add", mod_slug, "-y">>
         /\ action = "update" => c = <<"update", mod_slug>>

\* C6: the action is decided once from the descriptors as they are before
\* the first attempt, is written to the output sink exactly once then, and
\* every tool invocation of the run uses that verb whatever becomes of the
\* descriptor directory.
C6_ActionDecidedOnce ==
    [](C6_OneVerb) /\ [][C6_Decision /\ C6_Fixed]_vars

\* The descriptor of the mod appeared during the run and the tool was still
\* invoked with add afterwards.
C6_Witness ==
    /\ action = "add"
    /\ mod_slug \in descriptors.slugs
    /\ cur.n = 2
    /\ cur.invoked
    /\ cmds = {<<platform, "add", mod_slug, "-y">>}

-----------------------------------------------------------------------------
(***************************************************************************)
(* Part II.  The [mc-publish] fragment: setup.py and scripts/mods_toml.py  *)
(*                                                                         *)
(* A text is a sequence of code units.  A unit is one character, or a run  *)
(* of letters and digits that no operation of the program splits ("old",   *)
(* "mc-publish", "123"); comparing unit by unit is then comparing          *)
(* character by character.                                                 *)
(***************************************************************************)

MaxLines == 3
MaxRewrites == 2

LF == "LF"
CR == "CR"
FF == "FF"
QUOTE == "\""
BSLASH == "\\"

\* The boundaries str.splitlines() recognises: \n, \r, \r\n, and the other
\* separators (\v \f \x1c \x1d \x1e \x85    ), of which FF stands.
LineBreaks == {LF, CR, FF}
\* What str.strip() removes.
Whitespace == {" ", LF, CR, FF}
\* The units that consist of decimal digits only.
DigitUnits == {"1", "7", "007", "123"}

REQUIRED_KEYS == <<"modrinth", "curseforge", "loader", "mc_version",
                   "modrinth_slug", "curseforge_slug">>

MinOf(S) == CHOOSE x \in S : \A y \in S : x <= y

\* Path.read_text(): text mode translates \r\n and \r to \n.
RECURSIVE read_text(_)
read_text(bytes) ==
    IF bytes = <<>> THEN <<>>
    ELSE IF Head(bytes) = CR
      THEN IF Len(bytes) > 1 /\ bytes[2] = LF
             THEN <<LF>> \o read_text(SubSeq(bytes, 3, Len(bytes)))
             ELSE <<LF>> \o read_text(Tail(bytes))
      ELSE <<Head(bytes)>> \o read_text(Tail(bytes))

\* Path.write_text() on a POSIX host: \n is written as it is.
write_text(text) == text

\* str.splitlines(): no line for the empty rest after a final boundary.
RECURSIVE split_from(_, _, _)
split_from(t, i, line) ==
    IF i > Len(t) THEN (IF line = <<>> THEN <<>> ELSE <<line>>)
    ELSE IF t[i] = CR /\ i < Len(t) /\ t[i + 1] = LF
      THEN <<line>> \o split_from(t, i + 2, <<>>)
    ELSE IF t[i] \in LineBreaks
      THEN <<line>> \o split_from(t, i + 1, <<>>)
    ELSE split_from(t, i + 1, Append(line, t[i]))

splitlines(t) == split_from(t, 1, <<>>)

\* "\n".join(lines)
RECURSIVE join(_)
join(lines) ==
    IF lines = <<>> THEN <<>>
    ELSE IF Len(lines) = 1 THEN lines[1]
    ELSE lines[1] \o <<LF>> \o join(Tail(lines))

RECURSIVE lstrip(_)
lstrip(s) == IF s # <<>> /\ Head(s) \in Whitespace THEN lstrip(Tail(s)) ELSE s

RECURSIVE rstrip(_)
rstrip(s) ==
    IF s # <<>> /\ s[Len(s)] \in Whitespace
      THEN rstrip(SubSeq(s, 1, Len(s) - 1)) ELSE s

strip(s) == rstrip(lstrip(s))

HasUnit(s, c) == \E i \in 1..Len(s) : s[i] = c

\* s.split(c, 1)[0]
split_first(s, c) ==
    IF HasUnit(s, c)
      THEN SubSeq(s, 1, MinOf({i \in 1..Len(s) : s[i] = c}) - 1)
      ELSE s

startswith(s, p) == Len(s) >= Len(p) /\ SubSeq(s, 1, Len(p)) = p
endswith(s, p) == Len(s) >= Len(p) /\ SubSeq(s, Len(s) - Len(p) + 1, Len(s)) = p

\* s.replace(c, r)
RECURSIVE replace(_, _, _)
replace(s, c, r) ==
    IF s = <<>> THEN <<>>
    ELSE (IF Head(s) = c THEN r ELSE <<Head(s)>>) \o replace(Tail(s), c, r)

isdigit(value) ==
    value # <<>> /\ \A i \in 1..Len(value) : value[i] \in DigitUnits

strip_inline_comment(line) == strip(split_first(line, "#"))

OwnerHeader == <<"[", "mc-publish", "]">>

is_owner_header(line) == strip_inline_comment(line) = OwnerHeader

is_table_header(line) ==
    LET stripped == strip_inline_comment(line)
    IN startswith(stripped, <<"[">>) /\ endswith(stripped, <<"]">>)

is_mc_publish_header(line) ==
    LET stripped == strip_inline_comment(line)
    IN \/ startswith(stripped, <<"[", "mc-publish">>)
       \/ startswith(stripped, <<"[", "[", "mc-publish">>)

\* Indices are 0-based as in the source: lines[i] of the source is lines[i + 1].
header_indices(lines) == {i \in 0..(Len(lines) - 1) : is_owner_header(lines[i + 1])}

\* The loop over range(start_index + 1, len(lines)) with its break.
find_end_index(lines, start_index) ==
    LET ends == {i \in (start_index + 1)..(Len(lines) - 1) :
                    is_table_header(lines[i + 1]) /\ ~is_mc_publish_header(lines[i + 1])}
    IN IF ends = {} THEN Len(lines) ELSE MinOf(ends)

\* lines[a:b]
slice(lines, a, b) == SubSeq(lines, a + 1, b)

NotLocated == [by |-> "none", kind |-> "none", start |-> -1, end |-> -1,
               block |-> <<>>]

\* setup.extract_mc_publish_block: None, sys.exit, or the block's text.
setup_extract_mc_publish_block(text) ==
    LET lines == splitlines(text)
        hs == header_indices(lines)
    IN IF hs = {} THEN [NotLocated EXCEPT !.by = "setup", !.kind = "None"]
       ELSE IF Cardinality(hs) > 1
         THEN [NotLocated EXCEPT !.by = "setup", !.kind = "exit Multiple"]
       ELSE LET start_index == MinOf(hs)
                end_index == find_end_index(lines, start_index)
            IN [by |-> "setup", kind |-> "block", start |-> start_index,
                end |-> end_index,
                block |-> join(slice(lines, start_index, end_index)) \o <<LF>>]

\* mods_toml.extract_mc_publish_block: fail() or the block's text.
mods_toml_extract_mc_publish_block(text) ==
    LET lines == splitlines(text)
        hs == header_indices(lines)
    IN IF hs = {} THEN [NotLocated EXCEPT !.by = "mods_toml", !.kind = "fail Missing"]
       ELSE IF Cardinality(hs) > 1
         THEN [NotLocated EXCEPT !.by = "mods_toml", !.kind = "fail Multiple"]
       ELSE LET start_index == MinOf(hs)
                end_index == find_end_index(lines, start_index)
            IN [by |-> "mods_toml", kind |-> "block", start |-> start_index,
                end |-> end_index,
                block |-> join(slice(lines, start_index, end_index)) \o <<LF>>]

ALLOWED_LOADERS == {<<"forge">>}

has_placeholder_never(value) == FALSE

\* "${" in value
has_placeholder(value) ==
    \E i \in 1..(Len(value) - 1) : value[i] = "$" /\ value[i + 1] = "{"

\* validate_file_value, its verdict: every value configure_file_item
\* returns, typed or taken from the file, has passed it.
validate_file_value(name, value) ==
    /\ strip(value) # <<>>
    /\ ~has_placeholder(value)
    /\ (name = "loader" => value \in ALLOWED_LOADERS)

format_toml_value_any_key(name, value) ==
    IF isdigit(value) THEN value
    ELSE LET escaped == replace(replace(value, BSLASH, <<BSLASH, BSLASH>>),
                                QUOTE, <<BSLASH, QUOTE>>)
         IN <<QUOTE>> \o escaped \o <<QUOTE>>

format_toml_value(name, value) ==
    IF name = "curseforge" /\ isdigit(value) THEN value
    ELSE LET escaped == replace(replace(value, BSLASH, <<BSLASH, BSLASH>>),
                                QUOTE, <<BSLASH, QUOTE>>)
         IN <<QUOTE>> \o escaped \o <<QUOTE>>

\* f"{key} = {format_toml_value(key, values[key])}"
key_line(key, vals) == <<key, " ", "=", " ">> \o format_toml_value(key, vals[key])

RECURSIVE key_lines(_, _)
key_lines(keys, vals) ==
    IF keys = <<>> THEN <<>>
    ELSE <<key_line(Head(keys), vals)>> \o key_lines(Tail(keys), vals)

build_mc_publish_block(vals, keys) == <<OwnerHeader>> \o key_lines(keys, vals)

NoKey == <<"=">>

\* The key a body line assigns: stripped.split("=", 1)[0].strip(), for a
\* line whose comment-stripped text holds "="; NoKey for the lines the loop
\* skips (no key of the program contains "=").
line_key(line) ==
    LET stripped == strip_inline_comment(line)
    IN IF HasUnit(stripped, "=") THEN strip(split_first(stripped, "=")) ELSE NoKey

RECURSIVE line_keys(_)
line_keys(block_lines) ==
    IF block_lines = <<>> THEN <<>>
    ELSE <<line_key(Head(block_lines))>> \o line_keys(Tail(block_lines))

\* key_indices: for each key of `values`, the index of its first line in
\* the body, given the key of every body line.
key_indices_of(keys_of_lines, vals) ==
    LET found == {k \in DOMAIN vals :
                    \E i \in 1..Len(keys_of_lines) : keys_of_lines[i] = <<k>>}
    IN [k \in found |->
          MinOf({i \in 1..Len(keys_of_lines) : keys_of_lines[i] = <<k>>})]

key_indices(block_lines, vals) == key_indices_of(line_keys(block_lines), vals)

\* The loop over ordered_keys: replace in place or append.
RECURSIVE apply_keys(_, _, _, _)
apply_keys(block_lines, keys, vals, kidx) ==
    IF keys = <<>> THEN block_lines
    ELSE LET key == Head(keys)
             new_line == key_line(key, vals)
         IN apply_keys(IF key \in DOMAIN kidx
                         THEN [block_lines EXCEPT ![kidx[key]] = new_line]
                         ELSE Append(block_lines, new_line),
                       Tail(keys), vals, kidx)

\* update_mc_publish_block on the text it read: the new text, whether it
\* differs, and the fragment the function located for itself.
update_mc_publish_block(text, vals, keys) ==
    LET lines == splitlines(text)
        hs == header_indices(lines)
        found == hs # {}
        start_index == IF found THEN MinOf(hs) ELSE -1
        end_index == IF found THEN find_end_index(lines, start_index) ELSE -1
        new_lines ==
            IF found
              THEN LET block_lines == slice(lines, start_index + 1, end_index)
                       kidx == key_indices(block_lines, vals)
                   IN slice(lines, 0, start_index + 1)
                        \o apply_keys(block_lines, keys, vals, kidx)
                        \o slice(lines, end_index, Len(lines))
              ELSE (IF lines # <<>> /\ strip(lines[Len(lines)]) # <<>>
                      THEN Append(lines, <<>>) ELSE lines)
                     \o build_mc_publish_block(vals, keys)
        new_text == join(new_lines) \o <<LF>>
    IN [text |-> new_text, changed |-> new_text # text,
        start |-> start_index, end |-> end_index]

\* ---- scripts/mods_toml.py: validation of the decoded table

\* A decoded value: a string (v its text) or an integer (v its decimal
\* digits, which is str(value)); None is what dict.get gives for an absent
\* key.
None == [t |-> "None", v |-> <<>>]
StrValue(v) == [t |-> "str", v |-> v]
IntValue(v) == [t |-> "int", v |-> v]

\* metadata_dict.get(key)
get(metadata_dict, key) ==
    IF key \in DOMAIN metadata_dict THEN metadata_dict[key] ELSE None

\* normalize_value: None, the stripped string or None when that is empty,
\* str(value) for a value that is not a string.
normalize_value(value) ==
    IF value.t = "None" THEN None
    ELSE IF value.t = "str"
      THEN LET stripped == strip(value.v)
           IN IF stripped # <<>> THEN StrValue(stripped) ELSE None
    ELSE StrValue(value.v)

\* The loop over REQUIRED_KEYS of read_metadata: it ends with the list of
\* missing keys and the keys recorded in `values`, or in fail() at the first
\* key whose value holds the placeholder marker.
RECURSIVE required_keys_loop(_, _, _, _)
required_keys_loop(metadata_dict, keys, missing, recorded) ==
    IF keys = <<>>
      THEN [kind |-> "done", key |-> "", missing |-> missing, recorded |-> recorded]
    ELSE LET key == Head(keys)
             value == normalize_value(get(metadata_dict, key))
         IN IF value = None
              THEN required_keys_loop(metadata_dict, Tail(keys),
                                      Append(missing, key), recorded)
            ELSE IF has_placeholder(value.v)
              THEN [kind |-> "fail", key |-> key, missing |-> missing,
                    recorded |-> recorded]
            ELSE required_keys_loop(metadata_dict, Tail(keys), missing,
                                    recorded \cup {key})

\* read_metadata from `metadata_dict` on: what it returns, or the diagnostic
\* it fails with and the keys that diagnostic names.
read_metadata_checks(metadata_dict) ==
    LET r == required_keys_loop(metadata_dict, REQUIRED_KEYS, <<>>, {})
        vals == [k \in r.recorded |-> normalize_value(get(metadata_dict, k)).v]
    IN IF r.kind = "fail"
         THEN [kind |-> "fail placeholder", named |-> <<r.key>>,
               values |-> [k \in {} |-> <<>>]]
       ELSE IF r.missing # <<>>
         THEN [kind |-> "fail Missing required keys", named |-> r.missing,
               values |-> [k \in {} |-> <<>>]]
       ELSE IF vals["loader"] \notin ALLOWED_LOADERS
         THEN [kind |-> "fail loader", named |-> <<"loader">>,
               values |-> [k \in {} |-> <<>>]]
       ELSE [kind |-> "ok", named |-> <<>>, values |-> vals]

\* ---- tomllib.loads on a block: the statements the model's lines are made
\* of (table headers, array-of-tables headers, bare keys, basic strings with
\* the escapes \\ and \", decimal integers, comments)

TomlSpecial == {" ", "=", "#", "[", "]", ".", QUOTE, BSLASH, "$", "{", "}",
                LF, CR, FF}
\* The digit units that begin with 0: not a TOML integer, nor its beginning.
LeadingZeroUnits == {"007"}

is_bare(units) ==
    units # <<>> /\ \A i \in 1..Len(units) : units[i] \notin TomlSpecial

RECURSIVE skip_ws(_)
skip_ws(s) == IF s # <<>> /\ Head(s) = " " THEN skip_ws(Tail(s)) ELSE s

\* After a statement: whitespace, then a comment or the end of the line.
ends_statement(s) == LET r == skip_ws(s) IN r = <<>> \/ Head(r) = "#"

\* The index of the first unit of s that is in cs; Len(s) + 1 without one.
first_of(s, cs) ==
    IF \E i \in 1..Len(s) : s[i] \in cs
      THEN MinOf({i \in 1..Len(s) : s[i] \in cs}) ELSE Len(s) + 1

\* A dotted name: its parts.
RECURSIVE split_dots(_, _)
split_dots(s, part) ==
    IF s = <<>> THEN <<part>>
    ELSE IF Head(s) = "." THEN <<part>> \o split_dots(Tail(s), <<>>)
    ELSE split_dots(Tail(s), Append(part, Head(s)))

TomlError == [kind |-> "error", path |-> <<>>, key |-> <<>>, value |-> None]

\* A basic string from index i of v on: its text and what follows it.
RECURSIVE basic_string(_, _, _)
basic_string(v, i, acc) ==
    IF i > Len(v) THEN [ok |-> FALSE, value |-> None, rest |-> <<>>]
    ELSE IF v[i] = QUOTE
      THEN [ok |-> TRUE, value |-> StrValue(acc), rest |-> SubSeq(v, i + 1, Len(v))]
    ELSE IF v[i] = BSLASH
      THEN IF i < Len(v) /\ v[i + 1] \in {BSLASH, QUOTE}
             THEN basic_string(v, i + 2, Append(acc, v[i + 1]))
             ELSE [ok |-> FALSE, value |-> None, rest |-> <<>>]
    ELSE basic_string(v, i + 1, Append(acc, v[i]))

parse_value(v) ==
    IF v = <<>> THEN [ok |-> FALSE, value |-> None, rest |-> <<>>]
    ELSE IF Head(v) = QUOTE THEN basic_string(v, 2, <<>>)
    ELSE LET n == first_of(v, {" ", "#"}) - 1
             token == SubSeq(v, 1, n)
         IN IF /\ isdigit(token)
               /\ token[1] \notin LeadingZeroUnits
              THEN [ok |-> TRUE, value |-> IntValue(token),
                    rest |-> SubSeq(v, n + 1, Len(v))]
              ELSE [ok |-> FALSE, value |-> None, rest |-> <<>>]

\* One line of a block as a statement.
parse_line(line) ==
    LET s == skip_ws(line)
    IN IF s = <<>> \/ Head(s) = "#" THEN [TomlError EXCEPT !.kind = "blank"]
       ELSE IF Head(s) = "["
         THEN LET array == Len(s) >= 2 /\ s[2] = "["
                  close == first_of(s, {"]"})
                  name == SubSeq(s, IF array THEN 3 ELSE 2, close - 1)
                  after == IF array THEN close + 2 ELSE close + 1
                  parts == split_dots(name, <<>>)
              IN IF /\ close <= Len(s)
                    /\ (array => close < Len(s) /\ s[close + 1] = "]")
                    /\ \A i \in 1..Len(parts) : is_bare(parts[i])
                    /\ ends_statement(SubSeq(s, after, Len(s)))
                   THEN [TomlError EXCEPT
                           !.kind = IF array THEN "array" ELSE "table",
                           !.path = parts]
                   ELSE TomlError
       ELSE LET n == first_of(s, {" ", "="}) - 1
                key == SubSeq(s, 1, n)
                eq == skip_ws(SubSeq(s, n + 1, Len(s)))
            IN IF is_bare(key) /\ eq # <<>> /\ Head(eq) = "="
                 THEN LET pv == parse_value(skip_ws(Tail(eq)))
                      IN IF pv.ok /\ ends_statement(pv.rest)
                           THEN [TomlError EXCEPT !.kind = "kv", !.key = key,
                                                  !.value = pv.value]
                           ELSE TomlError
                 ELSE TomlError

\* The decoder's state: the tables declared, the arrays of tables, the
\* table being filled (idx numbers the elements of arrays, 0 for a table),
\* the keys assigned in each table, and the entries of "mc-publish".
TomlStart == [err |-> FALSE, declared |-> {}, arrays |-> {}, narrays |-> 0,
              cur |-> [path |-> <<>>, idx |-> 0], keys |-> {}, entries |-> {}]

parent_key_taken(st, path) ==
    <<SubSeq(path, 1, Len(path) - 1), 0, path[Len(path)]>> \in st.keys

toml_statement(st, stmt) ==
    IF st.err \/ stmt.kind = "blank" THEN st
    ELSE IF stmt.kind = "error" THEN [st EXCEPT !.err = TRUE]
    ELSE IF stmt.kind = "table"
      THEN IF \/ stmt.path \in st.declared
              \/ stmt.path \in st.arrays
              \/ parent_key_taken(st, stmt.path)
             THEN [st EXCEPT !.err = TRUE]
             ELSE [st EXCEPT !.declared = @ \cup {stmt.path},
                             !.cur = [path |-> stmt.path, idx |-> 0]]
    ELSE IF stmt.kind = "array"
      THEN IF \/ stmt.path \in st.declared
              \/ parent_key_taken(st, stmt.path)
             THEN [st EXCEPT !.err = TRUE]
             ELSE [st EXCEPT !.arrays = @ \cup {stmt.path},
                             !.narrays = @ + 1,
                             !.cur = [path |-> stmt.path, idx |-> st.narrays + 1]]
    ELSE IF \/ <<st.cur.path, st.cur.idx, stmt.key>> \in st.keys
            \/ Append(st.cur.path, stmt.key) \in st.declared \cup st.arrays
      THEN [st EXCEPT !.err = TRUE]
      ELSE [st EXCEPT
              !.keys = @ \cup {<<st.cur.path, st.cur.idx, stmt.key>>},
              !.entries = IF st.cur = [path |-> <<<<"mc-publish">>>>, idx |-> 0]
                            THEN @ \cup {<<stmt.key, stmt.value>>} ELSE @]

RECURSIVE toml_statements(_, _)
toml_statements(st, lines) ==
    IF lines = <<>> THEN st
    ELSE toml_statements(toml_statement(st, parse_line(Head(lines))), Tail(lines))

\* tomllib.loads(block_text): TOMLDecodeError, or the document with the
\* mapping of its "mc-publish" table (the entries with a one-unit key; no
\* required key is longer).
toml_loads(block_text) ==
    LET st == toml_statements(TomlStart, splitlines(block_text))
        named == {e \in st.entries : Len(e[1]) = 1}
    IN IF st.err
         THEN [kind |-> "TOMLDecodeError", has |-> FALSE, table |-> [k \in {} |-> <<>>]]
         ELSE [kind |-> "ok", has |-> <<<<"mc-publish">>>> \in st.declared,
               table |-> [k \in {e[1][1] : e \in named} |->
                            (CHOOSE e \in named : e[1][1] = k)[2]]]

\* read_metadata(mods_toml) on the text of the file: the block located, the
\* document decoded, and what the validation made of it.
read_metadata(text) ==
    LET loc == mods_toml_extract_mc_publish_block(text)
        data == IF loc.kind = "block" THEN toml_loads(loc.block)
                ELSE [kind |-> "none", has |-> FALSE, table |-> [k \in {} |-> <<>>]]
        res == IF loc.kind # "block"
                 THEN [kind |-> loc.kind, named |-> <<>>, values |-> [k \in {} |-> <<>>]]
               ELSE IF data.kind = "TOMLDecodeError"
                 THEN [kind |-> "fail Invalid TOML", named |-> <<>>,
                       values |-> [k \in {} |-> <<>>]]
               ELSE IF ~data.has
                 THEN [kind |-> "fail Missing table", named |-> <<>>,
                       values |-> [k \in {} |-> <<>>]]
               ELSE read_metadata_checks(data.table)
    IN [located |-> loc, metadata |-> data, validated |-> res]

\* write_outputs: the lines appended to GITHUB_OUTPUT.
write_outputs(vals) ==
    << <<"modrinth_id", vals["modrinth"]>>,
       <<"curseforge_id", vals["curseforge"]>>,
       <<"loader", vals["loader"]>>,
       <<"mc_version", vals["mc_version"]>>,
       <<"modrinth_slug", vals["modrinth_slug"]>>,
       <<"curseforge_slug", vals["curseforge_slug"]>> >>

\* ---- the documents, value mappings and key orders the editor is applied to

LinePool ==
    { OwnerHeader,
      <<" ", "[", "mc-publish", "]", " ", "#", "c">>,
      <<"[", "other", "]">>,
      <<"[", "mc-publish", "ing", "]">>,
      <<"[", "[", "mc-publish", ".", "x", "]", "]">>,
      <<"modrinth", " ", "=", " ", QUOTE, "old", QUOTE>>,
      <<"curseforge", "=", "7", " ", "#", "c">>,
      <<"x", " ", "=", " ", "1">>,
      <<>> }

\* How the lines of a document are terminated, and whether the last one is.
DocStyles ==
    { [eol |-> <<LF>>, final |-> TRUE], [eol |-> <<LF>>, final |-> FALSE],
      [eol |-> <<CR, LF>>, final |-> TRUE], [eol |-> <<FF>>, final |-> TRUE] }

RECURSIVE with_eols(_, _, _)
with_eols(ls, eol, final) ==
    IF ls = <<>> THEN <<>>
    ELSE IF Len(ls) = 1 THEN ls[1] \o (IF final THEN eol ELSE <<>>)
    ELSE ls[1] \o eol \o with_eols(Tail(ls), eol, final)

LineSeqs == UNION {[1..n -> LinePool] : n \in 0..MaxLines}

Documents(st) == { with_eols(ls, st.eol, st.final) : ls \in LineSeqs }

FixedValues == [loader |-> <<"forge">>, mc_version |-> <<"1.20.1">>,
                modrinth_slug |-> <<"my-mod">>, curseforge_slug |-> <<"my-mod">>]

ValueMap(m, c) ==
    [k \in {REQUIRED_KEYS[i] : i \in 1..Len(REQUIRED_KEYS)} |->
        IF k = "modrinth" THEN m ELSE IF k = "curseforge" THEN c ELSE FixedValues[k]]

ValueMaps ==
    { ValueMap(<<"abc">>, <<"007">>),
      ValueMap(<<"123">>, <<"a", QUOTE, BSLASH>>),
      ValueMap(<<"a", LF, "b">>, <<"123">>) }

\* The arguments of update_mc_publish_block: main passes the six keys in the
\* order of build_file_items; a shorter order in another sequence exercises
\* the function on its own.
EditInputs ==
    { [values |-> v, keys |-> REQUIRED_KEYS] : v \in ValueMaps }
    \cup { [values |-> ValueMap(<<"abc">>, <<"007">>),
            keys |-> <<"curseforge", "modrinth">>] }

\* The cases the editor is run on: every document style with one input, and
\* every input on documents in the plain style (LF, terminated last line).
EditCases ==
    { [style |-> st, in |-> [values |-> ValueMap(<<"abc">>, <<"007">>),
                             keys |-> REQUIRED_KEYS]] : st \in DocStyles }
    \cup { [style |-> [eol |-> <<LF>>, final |-> TRUE], in |-> i] : i \in EditInputs }

\* While the editor is modelled no sync process runs.
SyncIdle ==
    /\ pc = "idle"
    /\ argc = 0
    /\ pack_dir_ok = FALSE
    /\ platform = "none"
    /\ descriptors = NoDir
    /\ action = "undecided"
    /\ attempt = 0
    /\ success = FALSE
    /\ cur = NoAttempt
    /\ outcome = "none"
    /\ result = "running"
    /\ exit_code = -1
    /\ sink = <<>>
    /\ cmds = {}
    /\ nChecks = 0
    /\ nTool = 0
    /\ nDone = 0

EditInit ==
    /\ SyncIdle
    /\ \E c \in EditCases :
         /\ file \in Documents(c.style)
         /\ values = c.in.values
         /\ ordered_keys = c.in.keys
    /\ prev = <<>>
    /\ ret = "none"
    /\ nRewrites = 0
    /\ located = NotLocated
    /\ MetaIdle

\* mods_toml.read_metadata's first step: locate the block for validation.
mods_toml_extract ==
    /\ located.by = "none"
    /\ located' = mods_toml_extract_mc_publish_block(read_text(file))
    /\ UNCHANGED <<file, values, ordered_keys, prev, ret, nRewrites>>
    /\ UNCHANGED <<syncVars, metaVars>>

\* setup.read_mc_publish_table's first step: locate the block for reading.
setup_extract ==
    /\ located.by = "none"
    /\ located' = setup_extract_mc_publish_block(read_text(file))
    /\ UNCHANGED <<file, values, ordered_keys, prev, ret, nRewrites>>
    /\ UNCHANGED <<syncVars, metaVars>>

\* One call of setup.update_mc_publish_block(mods_toml, values, ordered_keys).
setup_update ==
    /\ nRewrites < MaxRewrites
    /\ located.by \in {"none", "update"}
    /\ \E r \in {update_mc_publish_block(read_text(file), values, ordered_keys)} :
          /\ file' = IF r.changed THEN write_text(r.text) ELSE file
          /\ ret' = IF r.changed THEN "True" ELSE "False"
          /\ located' = [by |-> "update",
                         kind |-> IF r.start >= 0 THEN "block" ELSE "None",
                         start |-> r.start, end |-> r.end, block |-> <<>>]
    /\ prev' = file
    /\ nRewrites' = nRewrites + 1
    /\ UNCHANGED <<values, ordered_keys>>
    /\ UNCHANGED <<syncVars, metaVars>>

\* mods_toml.read_metadata(mods_toml) on the file a rewrite has left.
mods_toml_read_metadata ==
    /\ located.by = "update"
    /\ \E r \in {read_metadata(read_text(file))} :
          /\ located' = r.located
          /\ metadata' = r.metadata
          /\ validated' = r.validated
    /\ UNCHANGED <<file, values, ordered_keys, prev, ret, nRewrites>>
    /\ UNCHANGED <<args, fmt>>
    /\ UNCHANGED syncVars

EditNext ==
    \/ mods_toml_extract
    \/ setup_extract
    \/ setup_update
    \/ mods_toml_read_metadata

EditSpec == EditInit /\ [][EditNext]_vars

-----------------------------------------------------------------------------
(***************************************************************************)
(* Claims about the fragment locator and editor.                           *)
(***************************************************************************)

\* The lines of a text with their terminators kept (splitlines(keepends=True)).
RECURSIVE keepends_from(_, _, _)
keepends_from(t, i, line) ==
    IF i > Len(t) THEN (IF line = <<>> THEN <<>> ELSE <<line>>)
    ELSE IF t[i] = CR /\ i < Len(t) /\ t[i + 1] = LF
      THEN <<line \o <<CR, LF>>>> \o keepends_from(t, i + 2, <<>>)
    ELSE IF t[i] \in LineBreaks
      THEN <<Append(line, t[i])>> \o keepends_from(t, i + 1, <<>>)
    ELSE keepends_from(t, i + 1, Append(line, t[i]))

RECURSIVE Concat(_)
Concat(seqs) == IF seqs = <<>> THEN <<>> ELSE Head(seqs) \o Concat(Tail(seqs))

\* The number of owner headers of the document on disk.
OwnerCount(bytes) == Cardinality(header_indices(splitlines(bytes)))

\* The document the last call read: a rewrite remembers it in prev.
DocumentRead == IF located.by = "update" THEN prev ELSE file

\* C7: the file a rewrite leaves differs from the file it read only inside
\* the fragment's line range: the lines before the header and the lines from
\* the end boundary on are kept with their terminators, and when there is no
\* fragment the old file is a prefix of the new one.
C7_RewriteKeepsOutside ==
    located.by = "update" =>
        IF located.kind = "None"
          THEN startswith(file, prev)
          ELSE LET chunks == keepends_from(prev, 1, <<>>)
                   before == Concat(SubSeq(chunks, 1, located.start))
                   after == Concat(SubSeq(chunks, located.end + 1, Len(chunks)))
               IN /\ startswith(file, before)
                  /\ endswith(file, after)
                  /\ Len(file) >= Len(before) + Len(after)

\* C8: a second rewrite with the same values and key order leaves the text
\* of the first and returns False.
C8_RewriteIdempotent ==
    nRewrites >= 2 => file = prev /\ ret = "False"

\* C9: wherever the table is located, zero owner headers give Absent, one
\* gives its fragment, and more than one is refused as ambiguous.
C9_LocateClassifies ==
    located.by # "none" =>
        LET n == OwnerCount(DocumentRead)
        IN /\ n = 0 => located.kind \in {"None", "fail Missing"}
           /\ n = 1 => /\ located.kind = "block"
                       /\ located.start \in header_indices(splitlines(DocumentRead))
           /\ n > 1 => located.kind \in {"exit Multiple", "fail Multiple"}

\* The end boundary as the claim defines it: the first table-header line
\* after the owner header that is neither [mc-publish] nor begins with
\* [[mc-publish; the document's length without one.
ClaimedEnd(lines, s) ==
    LET ends == {i \in (s + 1)..(Len(lines) - 1) :
                    /\ is_table_header(lines[i + 1])
                    /\ strip_inline_comment(lines[i + 1]) # OwnerHeader
                    /\ ~startswith(strip_inline_comment(lines[i + 1]),
                                   <<"[", "[", "mc-publish">>)}
    IN IF ends = {} THEN Len(lines) ELSE MinOf(ends)

\* C10: for a document with exactly one owner header the fragment located
\* ends at the claimed end boundary.
C10_FragmentEnd ==
    (located.by # "none" /\ OwnerCount(DocumentRead) = 1) =>
        located.end = ClaimedEnd(splitlines(DocumentRead), located.start)

\* The keys of key_order that have no key = value line in the body.
RECURSIVE AbsentKeys(_, _)
AbsentKeys(keys, keys_of_lines) ==
    IF keys = <<>> THEN <<>>
    ELSE (IF \E i \in 1..Len(keys_of_lines) : keys_of_lines[i] = <<Head(keys)>>
            THEN <<>> ELSE <<Head(keys)>>)
         \o AbsentKeys(Tail(keys), keys_of_lines)

\* The key of key_order whose existing line is body line i (its first line
\* with that key), as a set: empty when line i is no such line.
KeyReplacedAt(keys, keys_of_lines, i) ==
    {k \in {keys[j] : j \in 1..Len(keys)} :
        /\ keys_of_lines[i] = <<k>>
        /\ \A h \in 1..(i - 1) : keys_of_lines[h] # <<k>>}

\* C11: after a rewrite of a document that has a fragment, the lines of the
\* file are the lines read, with the existing line of each key of key_order
\* replaced at its position by key = formatted value, one line appended at
\* the end of the fragment body for each key of key_order without a line, in
\* key_order order, and every other line as it was and where it was.
C11_MinimalDiff ==
    (located.by = "update" /\ located.kind = "block") =>
        LET old == splitlines(read_text(prev))
            new == splitlines(read_text(file))
            s == located.start
            e == located.end
            body == slice(old, s + 1, e)
            ks == line_keys(body)
            absent == AbsentKeys(ordered_keys, ks)
        IN /\ Len(new) = Len(old) + Len(absent)
           /\ \A i \in 1..(s + 1) : new[i] = old[i]
           /\ \A i \in 1..Len(body) :
                LET hit == KeyReplacedAt(ordered_keys, ks, i)
                IN new[s + 1 + i] =
                     IF hit # {} THEN key_line(CHOOSE k \in hit : TRUE, values)
                     ELSE body[i]
           /\ \A j \in 1..Len(absent) : new[e + j] = key_line(absent[j], values)
           /\ \A i \in (e + 1)..Len(old) : new[i + Len(absent)] = old[i]

-----------------------------------------------------------------------------
(***************************************************************************)
(* Part III.  Value formatting (setup.py) and validation of the decoded    *)
(* [mc-publish] table (scripts/mods_toml.py).                              *)
(***************************************************************************)

MaxValueLen == 3

\* The units the formatted values are made of.
FormatUnits == {"a", "7", "007", QUOTE, BSLASH, " "}

\* The values of length 0..MaxValueLen, and the one loader allowed.
FormatValues ==
    UNION {[1..n -> FormatUnits] : n \in 0..MaxValueLen} \cup ALLOWED_LOADERS

RequiredKeySet == {REQUIRED_KEYS[i] : i \in 1..Len(REQUIRED_KEYS)}

\* A call format_toml_value(key, values[key]) of build_mc_publish_block or
\* update_mc_publish_block, about to be made.
FormatInit ==
    /\ SyncIdle
    /\ EditIdle
    /\ metadata = NoMetadata
    /\ validated = NotValidated
    /\ args = NoArgs
    /\ \E n \in RequiredKeySet, v \in FormatValues :
         /\ validate_file_value(n, v)
         /\ fmt = [name |-> n, value |-> v, out |-> <<>>, done |-> FALSE]

format_value ==
    /\ ~fmt.done
    /\ fmt' = [fmt EXCEPT !.out = format_toml_value(fmt.name, fmt.value),
                          !.done = TRUE]
    /\ UNCHANGED <<metadata, validated, args>>
    /\ UNCHANGED <<syncVars, editVars>>

FormatNext == format_value

FormatSpec == FormatInit /\ [][FormatNext]_vars

\* A value composed entirely of decimal digits.
AllDigits(value) ==
    /\ Len(value) > 0
    /\ \A i \in 1..Len(value) : value[i] \in {"1", "7", "007", "123"}

\* inner is value with a backslash put before each backslash and each
\* double quote, and nothing else changed.
RECURSIVE Escaped(_, _)
Escaped(inner, value) ==
    IF value = <<>> THEN inner = <<>>
    ELSE IF Head(value) \in {BSLASH, QUOTE}
      THEN /\ Len(inner) >= 2
           /\ inner[1] = BSLASH
           /\ inner[2] = Head(value)
           /\ Escaped(SubSeq(inner, 3, Len(inner)), Tail(value))
      ELSE /\ Len(inner) >= 1
           /\ inner[1] = Head(value)
           /\ Escaped(Tail(inner), Tail(value))

\* out is value as a double-quoted string with its backslashes and quotes
\* escaped.
QuotedString(out, value) ==
    /\ Len(out) >= 2
    /\ out[1] = QUOTE
    /\ out[Len(out)] = QUOTE
    /\ Escaped(SubSeq(out, 2, Len(out) - 1), value)

\* C12 as stated: for every key, an all-digit value is emitted unquoted and
\* every other value as a quoted string with backslash and quote escaped.
C12_DigitsUnquotedForEveryKey ==
    fmt.done =>
        IF AllDigits(fmt.value) THEN fmt.out = fmt.value
        ELSE QuotedString(fmt.out, fmt.value)

\* C12 amended: a value is emitted unquoted exactly when the key is
\* curseforge and the value is all digits; every other value, the all-digit
\* value of another key included, is emitted as a quoted string with
\* backslash and quote escaped.
C12_DigitsUnquotedForCurseforge ==
    fmt.done =>
        IF fmt.name = "curseforge" /\ AllDigits(fmt.value)
          THEN fmt.out = fmt.value
          ELSE QuotedString(fmt.out, fmt.value)

\* An all-digit value of a key other than curseforge has been formatted.
C12_Witness ==
    /\ fmt.done
    /\ fmt.name = "modrinth"
    /\ fmt.value = <<"7", "007">>
    /\ fmt.out = <<QUOTE, "7", "007", QUOTE>>

\* ---- scripts/mods_toml.py run on a decoded [mc-publish] table

\* The values a key of the decoded table can have; None stands for a key
\* the table does not have.
MetaStrings ==
    {<<>>, <<" ">>, <<"abc">>, <<" ", "abc", " ">>, <<"$", "{", "v", "}">>}
OneOf(key) ==
    CASE key = "modrinth" ->
           {None, IntValue(<<"7">>)} \cup {StrValue(v) : v \in MetaStrings}
      [] key = "curseforge" ->
           {None, IntValue(<<"123">>), StrValue(<<"abc">>), StrValue(<<"$", "{", "v", "}">>)}
      [] key = "loader" ->
           {None} \cup {StrValue(v) : v \in {<<"forge">>, <<" ", "forge", LF>>,
                                       <<"fabric">>, <<"$", "{", "v", "}">>}}
      [] key = "mc_version" ->
           {None, StrValue(<<"1.20.1">>), StrValue(<<"a", "$", "{">>)}
      [] OTHER -> {None, StrValue(<<"my-mod">>)}

\* The mapping with one choice per required key: a key whose choice is
\* None is absent.
MetadataDict(c) == [k \in {q \in RequiredKeySet : c[q] # None} |-> c[k]]

MetadataDicts ==
    { MetadataDict([modrinth |-> m, curseforge |-> c, loader |-> l,
                    mc_version |-> v, modrinth_slug |-> ms,
                    curseforge_slug |-> cs]) :
        m \in OneOf("modrinth"), c \in OneOf("curseforge"),
        l \in OneOf("loader"), v \in OneOf("mc_version"),
        ms \in OneOf("modrinth_slug"), cs \in OneOf("curseforge_slug") }

\* main of mods_toml.py after the document was found and decoded.
ValidateInit ==
    /\ pc = "read_metadata"
    /\ argc = 0
    /\ pack_dir_ok = FALSE
    /\ platform = "none"
    /\ descriptors = NoDir
    /\ action = "undecided"
    /\ attempt = 0
    /\ success = FALSE
    /\ cur = NoAttempt
    /\ outcome = "none"
    /\ result = "running"
    /\ exit_code = -1
    /\ sink = <<>>
    /\ cmds = {}
    /\ nChecks = 0
    /\ nTool = 0
    /\ nDone = 0
    /\ EditIdle
    /\ \E md \in MetadataDicts : metadata = [kind |-> "ok", has |-> TRUE, table |-> md]
    /\ validated = NotValidated
    /\ args \in [write_outputs : BOOLEAN, GITHUB_OUTPUT : BOOLEAN]
    /\ fmt = NotFormatted

\* main, line 146: values = read_metadata(mods_toml); fail() exits with 1.
mods_toml_main_validate ==
    /\ pc = "read_metadata"
    /\ \E r \in {read_metadata_checks(metadata.table)} :
         /\ validated' = r
         /\ IF r.kind = "ok"
              THEN /\ pc' = "write_outputs"
                   /\ exit_code' = exit_code
              ELSE /\ pc' = "exited"
                   /\ exit_code' = 1
    /\ UNCHANGED <<argc, pack_dir_ok, platform, descriptors, action, attempt,
                   success, cur, outcome, result, sink, cmds, nChecks, nTool,
                   nDone>>
    /\ UNCHANGED <<metadata, args, fmt>>
    /\ UNCHANGED editVars

\* main, lines 149-152: write the outputs if asked to, and return 0;
\* write_outputs fails when GITHUB_OUTPUT is not set.
mods_toml_main_write_outputs ==
    /\ pc = "write_outputs"
    /\ pc' = "exited"
    /\ IF args.write_outputs
         THEN IF args.GITHUB_OUTPUT
                THEN /\ sink' = sink \o write_outputs(validated.values)
                     /\ exit_code' = 0
                ELSE /\ sink' = sink
                     /\ exit_code' = 1
         ELSE /\ sink' = sink
              /\ exit_code' = 0
    /\ UNCHANGED <<argc, pack_dir_ok, platform, descriptors, action, attempt,
                   success, cur, outcome, result, cmds, nChecks, nTool, nDone>>
    /\ UNCHANGED metaVars
    /\ UNCHANGED editVars

ValidateNext ==
    \/ mods_toml_main_validate
    \/ mods_toml_main_write_outputs

ValidateSpec == ValidateInit /\ [][ValidateNext]_vars

\* The required keys that are missing from a decoded table: absent, or a
\* string that is empty after trimming.
RECURSIVE OnlyWhitespace(_)
OnlyWhitespace(v) ==
    v = <<>> \/ (Head(v) \in {" ", LF, CR, FF} /\ OnlyWhitespace(Tail(v)))

MissingKeys(md) ==
    {k \in RequiredKeySet :
        \/ k \notin DOMAIN md
        \/ md[k].t = "str" /\ OnlyWhitespace(md[k].v)}

\* C13: when required keys are missing, validation fails with the
\* diagnostic of missing keys, and that diagnostic names every one of them.
C13_AllMissingListed ==
    (validated.kind # "none" /\ MissingKeys(metadata.table) # {}) =>
        /\ validated.kind = "fail Missing required keys"
        /\ {validated.named[i] : i \in 1..Len(validated.named)}
             = MissingKeys(metadata.table)

HoldsMarker(v) == \E i \in 1..Len(v), j \in 1..Len(v) :
                     j = i + 1 /\ v[i] = "$" /\ v[j] = "{"

\* C14: a record that validation returns has the six required keys, each
\* value non-empty after trimming and free of the placeholder marker, and an
\* allowed loader; a table with the marker in a required key's value is
\* never accepted; the output sink holds nothing unless validation
\* succeeded, and then the six fields of the record returned; a failed
\* validation ends the process with exit status 1.
C14_ValidatedRecord ==
    /\ validated.kind = "ok" =>
          /\ DOMAIN validated.values = RequiredKeySet
          /\ \A k \in RequiredKeySet :
                /\ ~OnlyWhitespace(validated.values[k])
                /\ ~HoldsMarker(validated.values[k])
          /\ validated.values["loader"] = <<"forge">>
    /\ (\E k \in DOMAIN metadata.table : HoldsMarker(metadata.table[k].v))
          => validated.kind # "ok"
    /\ validated.kind \notin {"none", "ok"} =>
          /\ sink = <<>>
          /\ pc = "exited"
          /\ exit_code = 1
    /\ sink # <<>> =>
          /\ validated.kind = "ok"
          /\ Len(sink) = 6
          /\ \A i \in 1..6 : sink[i][2] = validated.values[REQUIRED_KEYS[i]]

\* A validated record was exported whose loader had to be trimmed and whose
\* modrinth value was an integer.
C14_Witness ==
    /\ pc = "exited"
    /\ exit_code = 0
    /\ sink # <<>>
    /\ metadata.table["loader"] = StrValue(<<" ", "forge", LF>>)
    /\ metadata.table["modrinth"] = IntValue(<<"7">>)

\* The document is one main of setup.py gets past: read_mc_publish_table
\* found no table in it, or a block that decodes.
Readable(bytes) ==
    LET loc == setup_extract_mc_publish_block(read_text(bytes))
    IN \/ loc.kind = "None"
       \/ loc.kind = "block" /\ toml_loads(loc.block).kind = "ok"

\* C15: for a document with at most one owner header (that setup could
\* read) and values that pass validate_file_value for all six required keys,
\* read_metadata on the file a rewrite has left returns exactly the values
\* written.
C15_RewriteThenValidate ==
    (/\ validated.kind # "none"
     /\ nRewrites >= 1
     /\ OwnerCount(prev) <= 1
     /\ Readable(prev)
     /\ ordered_keys = REQUIRED_KEYS
     /\ \A k \in RequiredKeySet : validate_file_value(k, values[k]))
    => /\ validated.kind = "ok"
       /\ \A k \in RequiredKeySet : validated.values[k] = values[k]

====
